---- MODULE Spec2Model ----
(***************************************************************************)
(* A model of src/src/hwview.py (Simple Hardware Viewer): the byte         *)
(* formatter, the CPU / RAM / GPU probes, and the Tk application's event   *)
(* handlers (refresh_all, _on_tab_changed, _load_gpu, _tick_live,          *)
(* copy_summary) run by Tk's single-threaded event loop.                   *)
(*                                                                         *)
(* Conventions.                                                            *)
(*  - TLC's integers are 32 bits wide, Python's are unbounded: a Python    *)
(*    int is a sequence of base-1024 limbs, least significant first,       *)
(*    without leading zero limbs (zero is <<0>>).                          *)
(*  - TLA+ strings are ASCII: the em dash U+2014 of the source is written  *)
(*    "--" (Dash) and the ellipsis U+2026 "..." (Ellipsis).                *)
(*  - A Python value is a record [t, s, i]: t its type, s its text for a   *)
(*    str (or the str() of a tuple), i its limbs for an int.               *)
(*  - A local of the source that is read several times is a parameter of   *)
(*    a helper operator (named ...With), so that it is worked out once.    *)
(***************************************************************************)
EXTENDS Integers, Sequences, FiniteSets, TLC

VARIABLES
    phase,       \* "init" before App() is constructed, "running" in mainloop, "failed" when App() raised
    osName,      \* platform.system()
    cpu_tree,    \* rows of self.cpu_tree, <<key, value>> pairs
    ram_tree,    \* rows of self.ram_tree
    gpu_text,    \* content of self.gpu_text
    status,      \* text of self.status
    live,        \* what self.live shows: the last published sample
    gpu_loaded,  \* self._gpu_loaded
    selected,    \* self.nb.select(), as the tab's text
    afterLoad,   \* number of scheduled, not yet run, after(50, self._load_gpu) callbacks
    afterTick,   \* number of scheduled, not yet run, after(.., self._tick_live) callbacks
    clipboard,   \* the clipboard's text
    exported,    \* the locals cpu, ram, gpus of the last completed copy_summary
    gpuProbes,   \* calls of get_gpu_details so far (saturating at MaxCount)
    gateProbes,  \* calls of get_gpu_details made by _load_gpu so far (saturating at MaxCount)
    ticks,       \* executions of _tick_live so far, modulo TickWrap
    tickFailed,  \* the last _tick_live left its try block by the except clause
    raised,      \* the handler that ran last let an exception escape to its caller
    fmt_a,       \* _fmt_bytes: first argument
    fmt_b,       \* _fmt_bytes: second argument
    fmt_ra,      \* _fmt_bytes(fmt_a) once called, "" before
    fmt_rb,      \* _fmt_bytes(fmt_b) once called, "" before
    cpu_src,     \* get_cpu_details: what cpuinfo, platform and psutil answer
    cpu_out,     \* get_cpu_details' outcome once called
    gpu_env,     \* get_gpu_details: the platform and what WMI answers
    gpu_out      \* get_gpu_details' outcome once called

appVars == <<phase, osName, cpu_tree, ram_tree, gpu_text, status, live, gpu_loaded,
             selected, afterLoad, afterTick, clipboard, exported, gpuProbes,
             gateProbes, ticks, tickFailed, raised>>
fmtVars == <<fmt_a, fmt_b, fmt_ra, fmt_rb>>
cpuVars == <<cpu_src, cpu_out>>
gpuVars == <<gpu_env, gpu_out>>
vars == <<appVars, fmtVars, cpuVars, gpuVars>>

----------------------------------------------------------------------------
(* Bounds of the model.                                                    *)

\* Longest int, in limbs, given to _fmt_bytes (7 limbs reach 1024^6).
MaxLimbs == 7
\* Most adapters Win32_VideoController() enumerates.
MaxAdapters == 2
\* Most _load_gpu callbacks pending at once.
MaxPending == 2
\* Where the two probe counters saturate.
MaxCount == 2
\* The tick counter wraps here.
TickWrap == 2

----------------------------------------------------------------------------
(* Python values.                                                          *)

Dash == "--"
Ellipsis == "..."

PyNone == [t |-> "None", s |-> "", i |-> <<0>>]
PyStr(x) == [t |-> "str", s |-> x, i |-> <<0>>]
PyInt(n) == [t |-> "int", s |-> "", i |-> n]
\* A non-empty tuple, given by its str().
PyTuple(repr) == [t |-> "tuple", s |-> repr, i |-> <<0>>]

\* bool(v): None, "" and 0 are falsy.
Truthy(v) ==
    CASE v.t = "None" -> FALSE
      [] v.t = "str" -> v.s # ""
      [] v.t = "int" -> v.i # <<0>>
      [] OTHER -> TRUE

\* a or b
PyOr(a, b) == IF Truthy(a) THEN a ELSE b

----------------------------------------------------------------------------
(* Unbounded ints as limbs.                                                *)

Base == 1024

RECURSIVE Norm(_)
Norm(n) ==
    IF Len(n) > 1 /\ n[Len(n)] = 0 THEN Norm(SubSeq(n, 1, Len(n) - 1)) ELSE n

\* n * m + carry, for small m and carry.
RECURSIVE MulSmall(_, _, _)
MulSmallWith(t, rest, m) == <<t % Base>> \o MulSmall(rest, m, t \div Base)
MulSmall(n, m, carry) ==
    IF n = <<>>
    THEN IF carry = 0 THEN <<>> ELSE <<carry>>
    ELSE MulSmallWith(Head(n) * m + carry, Tail(n), m)

\* n + 1
RECURSIVE Succ(_)
Succ(n) ==
    IF n = <<>> THEN <<1>>
    ELSE IF Head(n) + 1 < Base THEN <<Head(n) + 1>> \o Tail(n)
    ELSE <<0>> \o Succ(Tail(n))

\* Quotient and remainder of n by a small d.
RECURSIVE DivRem(_, _)
DivRemStep(cur, d, hiq) == [q |-> <<cur \div d>> \o hiq, r |-> cur % d]
DivRemWith(hi, low, d) == DivRemStep(hi.r * Base + low, d, hi.q)
DivRem(n, d) ==
    IF n = <<>>
    THEN [q |-> <<>>, r |-> 0]
    ELSE DivRemWith(DivRem(Tail(n), d), Head(n), d)

\* str(n) of an int.
RECURSIVE IntStr(_)
IntStrWith(q, r) == IF q = <<0>> THEN ToString(r) ELSE IntStr(q) \o ToString(r)
IntStrDiv(dr) == IntStrWith(Norm(dr.q), dr.r)
IntStr(n) == IntStrDiv(DivRem(n, 10))

\* str(v)
PyStrOf(v) ==
    CASE v.t = "None" -> "None"
      [] v.t = "int" -> IntStr(v.i)
      [] OTHER -> v.s

----------------------------------------------------------------------------
(* _fmt_bytes (lines 32-39).                                               *)

\* Number of bits of a limb.
BitLen(d) == CHOOSE b \in 0..10 : d < 2^b /\ (b = 0 \/ d >= 2^(b - 1))

\* c zero limbs
Zeros(c) == IF c <= 0 THEN <<>> ELSE [j \in 1..c |-> 0]

\* n * 1024^q
ShiftLimbs(n, q) == IF n = <<0>> THEN n ELSE Zeros(q) \o n

\* n's 53-bit significand sig and the q limbs and r bits below it, rounded
\* to the nearest multiple of 2^(10 q + r), ties to even.
RoundSig(sig, rem, low, q, r) ==
    LET lowNonZero == \E j \in 1..q : low[j] # 0
        lowBelowTop == \E j \in 1..(q - 1) : low[j] # 0
        above == IF r > 0
                 THEN rem > 2^(r - 1) \/ (rem = 2^(r - 1) /\ lowNonZero)
                 ELSE low[q] > 512 \/ (low[q] = 512 /\ lowBelowTop)
        tie == IF r > 0
               THEN rem = 2^(r - 1) /\ ~lowNonZero
               ELSE low[q] = 512 /\ ~lowBelowTop
    IN  ShiftLimbs(Norm(MulSmall(IF above \/ (tie /\ sig[1] % 2 = 1) THEN Succ(sig) ELSE sig,
                                 2^r, 0)), q)

RoundDiv(dr, low, q, r) == RoundSig(Norm(dr.q), dr.r, low, q, r)

\* n with its lowest drop bits rounded away.
RoundBits(n, drop) ==
    RoundDiv(DivRem(SubSeq(n, drop \div 10 + 1, Len(n)), 2^(drop % 10)),
             SubSeq(n, 1, drop \div 10), drop \div 10, drop % 10)

PyFloatWith(n, drop) ==
    [num |-> IF drop <= 0 THEN n ELSE RoundBits(n, drop), shift |-> 0]

\* float(n), line 34: n rounded to a 53-bit significand, ties to even.  The
\* result is a float [num, shift] of value num / 1024^shift.
PyFloat(n) == PyFloatWith(n, 10 * (Len(n) - 1) + BitLen(n[Len(n)]) - 53)

\* v < step, line 36, with step = 1024.0
LessThanStep(v) == Len(Norm(v.num)) <= v.shift + 1

\* v /= step, line 38: exact, a division of a float by a power of two.
DivStep(v) == [num |-> v.num, shift |-> v.shift + 1]

\* int(v), line 37
PyTrunc(v) ==
    IF Len(v.num) <= v.shift THEN <<0>> ELSE SubSeq(v.num, v.shift + 1, Len(v.num))

\* A decimal numeral with a point before its last digit.
PointBeforeLast(d) ==
    IF Len(d) = 1
    THEN "0." \o d
    ELSE SubSeq(d, 1, Len(d) - 1) \o "." \o SubSeq(d, Len(d), Len(d))

\* mp / 1024^k rounded to an integer, ties to even.
RoundTenths(mp, ip, k) ==
    LET restNonZero == \E j \in 1..(k - 1) : mp[j] # 0
        up == /\ k > 0
              /\ \/ mp[k] > 512
                 \/ mp[k] = 512 /\ restNonZero
                 \/ mp[k] = 512 /\ ~restNonZero /\ ip[1] % 2 = 1
    IN  IF up THEN Succ(ip) ELSE ip

TenthsPadded(mp, k) == RoundTenths(mp, Norm(SubSeq(mp, k + 1, Len(mp))), k)

TenthsWith(m, k) == TenthsPadded(m \o Zeros(k + 1 - Len(m)), k)

\* f"{v:.1f}", lines 37 and 39: the float's exact value rounded to one decimal,
\* ties to even.
Fixed1(v) == PointBeforeLast(IntStr(TenthsWith(MulSmall(v.num, 10, 0), v.shift)))

\* Mutant of Units: the loop misses "TB".
Units_NoTB == <<"B", "KB", "MB", "GB">>

\* The units of the loop, line 35.
Units == <<"B", "KB", "MB", "GB", "TB">>

\* The loop of lines 35-38 from unit idx on, and line 39 after it.
RECURSIVE FmtLoop(_, _)
FmtLoop(v, idx) ==
    IF idx > Len(Units)
    THEN Fixed1(v) \o " PB"
    ELSE IF LessThanStep(v)
         THEN IF Units[idx] # "B"
              THEN Fixed1(v) \o " " \o Units[idx]
              ELSE IntStr(PyTrunc(v)) \o " " \o Units[idx]
         ELSE FmtLoop(DivStep(v), idx + 1)

_fmt_bytes(n) == FmtLoop(PyFloat(n), 1)

\* The ints given to _fmt_bytes: every limb sequence of up to MaxLimbs limbs
\* whose limbs are boundary values, with at most three limbs that are not 0.
FmtLimbs == {0, 1, 256, 512, 768, 1023}
FmtTop == {1, 512, 1023}
FmtInputs ==
    {<<0>>} \cup
    UNION {{[j \in 1..L |-> IF j = L THEN t ELSE IF j = L - 1 THEN a
                            ELSE IF j = 1 THEN b ELSE 0] :
                t \in FmtTop, a \in FmtLimbs, b \in {0, 1}} : L \in 1..MaxLimbs}

FmtInit ==
    /\ fmt_a \in FmtInputs
    /\ fmt_b \in {<<0>>, <<1023>>, <<0, 1>>, <<512, 1>>, <<0, 0, 0, 0, 1>>,
                  <<0, 0, 0, 0, 0, 1>>, <<0, 0, 0, 0, 0, 0, 1>>}
    /\ fmt_ra = ""
    /\ fmt_rb = ""

FmtIdle ==
    /\ fmt_a = <<0>>
    /\ fmt_b = <<0>>
    /\ fmt_ra = ""
    /\ fmt_rb = ""

FmtBytesA ==
    /\ fmt_ra = ""
    /\ fmt_ra' = _fmt_bytes(fmt_a)
    /\ UNCHANGED <<fmt_a, fmt_b, fmt_rb, appVars, cpuVars, gpuVars>>

FmtBytesB ==
    /\ fmt_rb = ""
    /\ fmt_rb' = _fmt_bytes(fmt_b)
    /\ UNCHANGED <<fmt_a, fmt_b, fmt_ra, appVars, cpuVars, gpuVars>>

----------------------------------------------------------------------------
(* Outcomes of a call: a value returned, or an exception raised.           *)

Return(v) == [ok |-> TRUE, val |-> v, cls |-> "", msg |-> ""]
Raise(c, m) == [ok |-> FALSE, val |-> <<>>, cls |-> c, msg |-> m]
NotCalled == [ok |-> FALSE, val |-> <<>>, cls |-> "", msg |-> "not called"]

----------------------------------------------------------------------------
(* get_cpu_details (lines 42-55).  A source is what the three libraries    *)
(* answer: src.fault names the call that raises ("" for none), src.info is *)
(* cpuinfo.get_cpu_info() by key (PyNone for a key that is absent),        *)
(* processor and machine are platform's strings, physical and logical      *)
(* psutil.cpu_count()'s answers.                                           *)

\* info.get(key)
InfoGet(src, key) == src.info[key]

CpuFieldNames == <<"Name", "Arch", "Advertised", "Cores (physical)", "Cores (logical)">>

\* Mutant of get_cpu_details: the shorter brand field comes before brand_raw.
get_cpu_details_BrandFirst(src) ==
    IF src.fault # ""
    THEN Raise("Exception", "source failed")
    ELSE Return(<< <<"Name", PyStrOf(PyOr(PyOr(PyOr(InfoGet(src, "brand"),
                                                    InfoGet(src, "brand_raw")),
                                               src.processor), PyStr("Unknown")))>>,
                   <<"Arch", PyStrOf(PyOr(PyOr(InfoGet(src, "arch"), src.machine),
                                          PyStr("Unknown")))>>,
                   <<"Advertised", PyStrOf(PyOr(PyOr(InfoGet(src, "hz_advertised_friendly"),
                                                     InfoGet(src, "hz_advertised")),
                                                PyStr("Unknown")))>>,
                   <<"Cores (physical)", PyStrOf(PyOr(src.physical, PyInt(<<0>>)))>>,
                   <<"Cores (logical)", PyStrOf(PyOr(src.logical, PyInt(<<0>>)))>> >>)

get_cpu_details(src) ==
    LET brand == PyOr(PyOr(PyOr(InfoGet(src, "brand_raw"), InfoGet(src, "brand")),
                           src.processor), PyStr("Unknown"))
        arch == PyOr(PyOr(InfoGet(src, "arch"), src.machine), PyStr("Unknown"))
        hz == PyOr(PyOr(InfoGet(src, "hz_advertised_friendly"),
                        InfoGet(src, "hz_advertised")), PyStr("Unknown"))
        cores_physical == PyOr(src.physical, PyInt(<<0>>))
        cores_logical == PyOr(src.logical, PyInt(<<0>>))
    IN  IF src.fault = "cpuinfo"
        THEN Raise("Exception", "cpuinfo.get_cpu_info() failed")
        ELSE IF src.fault = "psutil"
        THEN Raise("Exception", "psutil.cpu_count() failed")
        ELSE Return(<< <<"Name", PyStrOf(brand)>>,
                       <<"Arch", PyStrOf(arch)>>,
                       <<"Advertised", PyStrOf(hz)>>,
                       <<"Cores (physical)", PyStrOf(cores_physical)>>,
                       <<"Cores (logical)", PyStrOf(cores_logical)>> >>)

InfoKeys == {"brand_raw", "brand", "arch", "hz_advertised_friendly", "hz_advertised"}

\* Every combination of each source field present, empty or absent.
CpuSources ==
    {[fault |-> "",
      info |-> [k \in InfoKeys |->
                  CASE k = "brand_raw" -> br
                    [] k = "brand" -> b
                    [] k = "arch" -> a
                    [] k = "hz_advertised_friendly" -> hf
                    [] OTHER -> hz],
      processor |-> p, machine |-> m, physical |-> cp, logical |-> cl] :
        br \in {PyNone, PyStr(""), PyStr("Intel(R) Core(TM) i7-9700K CPU @ 3.60GHz")},
        b \in {PyNone, PyStr(""), PyStr("Intel Core i7")},
        a \in {PyNone, PyStr(""), PyStr("X86_64")},
        hf \in {PyNone, PyStr(""), PyStr("3.6000 GHz")},
        hz \in {PyNone, PyTuple("(3600000000, 0)")},
        p \in {PyStr(""), PyStr("Intel64 Family 6 Model 158")},
        m \in {PyStr(""), PyStr("AMD64")},
        cp \in {PyNone, PyInt(<<8>>)},
        cl \in {PyNone, PyInt(<<16>>)}}

\* A source that answers every field.
CpuFull ==
    [fault |-> "",
     info |-> [k \in InfoKeys |->
                 CASE k = "brand_raw" -> PyStr("Intel(R) Core(TM) i7-9700K CPU @ 3.60GHz")
                   [] k = "brand" -> PyStr("Intel Core i7")
                   [] k = "arch" -> PyStr("X86_64")
                   [] k = "hz_advertised_friendly" -> PyStr("3.6000 GHz")
                   [] OTHER -> PyTuple("(3600000000, 0)")],
     processor |-> PyStr("Intel64 Family 6 Model 158"), machine |-> PyStr("AMD64"),
     physical |-> PyInt(<<8>>), logical |-> PyInt(<<16>>)]

\* The sources whose call raises.
CpuFaulty == {[CpuFull EXCEPT !.fault = f] : f \in {"cpuinfo", "psutil"}}

CpuInit ==
    /\ cpu_src \in CpuSources \cup CpuFaulty
    /\ cpu_out = NotCalled

CpuIdle ==
    /\ cpu_src = CpuFull
    /\ cpu_out = NotCalled

CpuProbe ==
    /\ cpu_out = NotCalled
    /\ cpu_out' = get_cpu_details(cpu_src)
    /\ UNCHANGED <<cpu_src, appVars, fmtVars, gpuVars>>

----------------------------------------------------------------------------
(* get_ram_details (lines 58-65).  A source is psutil.virtual_memory():    *)
(* total, available and used in bytes, percent in tenths of a percent      *)
(* (psutil reports one decimal); src.fault says the call raises.           *)

\* f"{x:.0f}" of a float with one decimal, given in tenths: ties to even.
Fixed0(tenths) ==
    LET w == tenths \div 10
        f == tenths % 10
    IN  ToString(IF f > 5 \/ (f = 5 /\ w % 2 = 1) THEN w + 1 ELSE w)

get_ram_details(src) ==
    IF src.fault
    THEN Raise("Exception", "psutil.virtual_memory() failed")
    ELSE Return(<< <<"Total", _fmt_bytes(src.total)>>,
                   <<"Available", _fmt_bytes(src.available)>>,
                   <<"Used", _fmt_bytes(src.used)>>,
                   <<"Percent", Fixed0(src.percent) \o "%">> >>)

\* 8 GiB in all, half of it used.
RamHalf ==
    [fault |-> FALSE, total |-> <<0, 0, 0, 8>>, available |-> <<0, 0, 0, 4>>,
     used |-> <<0, 0, 0, 4>>, percent |-> 500]

RamFaulty == [RamHalf EXCEPT !.fault = TRUE]

----------------------------------------------------------------------------
(* get_gpu_details (lines 68-91).  An environment is platform.system()     *)
(* and what WMI answers: env.fault names the step that raises ("" for      *)
(* none; "import" is line 78, "connect" line 80, "query" line 82) and      *)
(* env.adapters is the sequence Win32_VideoController() enumerates.  An    *)
(* adapter gives its attributes as Python values, PyNone for one that is   *)
(* missing.                                                                *)

\* str.lower() of the names platform.system() gives.
Lower(name) ==
    CASE name = "Windows" -> "windows"
      [] name = "Linux" -> "linux"
      [] name = "Darwin" -> "darwin"
      [] OTHER -> name

Digits == <<"0", "1", "2", "3", "4", "5", "6", "7", "8", "9">>

IsDigit(c) == \E d \in 1..10 : Digits[d] = c

DigitValue(c) == (CHOOSE d \in 1..10 : Digits[d] = c) - 1

\* The int a string of decimal digits denotes.
RECURSIVE ParseDigits(_, _)
ParseDigits(str, acc) ==
    IF str = ""
    THEN Norm(acc)
    ELSE ParseDigits(SubSeq(str, 2, Len(str)),
                     MulSmall(acc, 10, DigitValue(SubSeq(str, 1, 1))))

\* int(v), line 85: an int is itself, a string of digits is parsed, any
\* other string raises ValueError.
PyIntOf(v) ==
    IF v.t = "int"
    THEN Return(v.i)
    ELSE IF v.t = "str" /\ v.s # "" /\ \A j \in 1..Len(v.s) : IsDigit(SubSeq(v.s, j, j))
    THEN Return(ParseDigits(v.s, <<0>>))
    ELSE Raise("ValueError",
               "invalid literal for int() with base 10: '" \o PyStrOf(v) \o "'")

GpuFieldNames == <<"Name", "VRAM", "Driver", "Status">>

\* A GPU record, a dict with the four keys in this order.
GpuRecord(name, vram, driver, st) ==
    << <<"Name", name>>, <<"VRAM", vram>>, <<"Driver", driver>>, <<"Status", st>> >>

\* The body of the loop of lines 82-88 for one adapter, conv being what
\* int(ram) does when ram is not None.
AdapterRecordWith(vc, conv) ==
    IF vc.AdapterRAM # PyNone /\ ~conv.ok
    THEN conv
    ELSE Return(GpuRecord(PyStrOf(PyOr(vc.Name, PyStr("Unknown"))),
                          IF vc.AdapterRAM # PyNone THEN _fmt_bytes(conv.val) ELSE Dash,
                          PyStrOf(PyOr(vc.DriverVersion, PyStr(Dash))),
                          PyStrOf(PyOr(vc.Status, PyStr(Dash)))))

AdapterRecord(vc) == AdapterRecordWith(vc, PyIntOf(vc.AdapterRAM))

\* The loop of lines 81-88: the records collected, or the first exception.
RECURSIVE CollectAdapters(_, _)
CollectWith(rec, rest, gpus) ==
    IF rec.ok THEN CollectAdapters(rest, Append(gpus, rec.val)) ELSE rec
CollectAdapters(adapters, gpus) ==
    IF adapters = <<>>
    THEN Return(gpus)
    ELSE CollectWith(AdapterRecord(Head(adapters)), Tail(adapters), gpus)

\* The text of line 91 for exception e.
LookupFailed(e) == "(GPU lookup failed: " \o e.cls \o ": " \o e.msg \o ")"

\* Lines 78-89, the body of the try: the list returned, or the exception.
Enumerate(env) ==
    CASE env.fault = "import" ->
             Raise("ModuleNotFoundError", "No module named 'wmi'")
      [] env.fault = "connect" ->
             Raise("x_wmi_uninitialised_thread", "WMI returned a syntax error")
      [] env.fault = "query" ->
             Raise("x_access_denied", "Access is denied")
      [] OTHER -> CollectAdapters(env.adapters, <<>>)

\* Mutant of TryResult: an empty enumeration is returned as it is.
TryResult_EmptyList(tried) ==
    IF tried.ok THEN tried ELSE Return(<<GpuRecord(LookupFailed(tried), Dash, Dash, Dash)>>)

\* Lines 89-91: what the try statement returns when its body ended as tried.
TryResult(tried) ==
    IF tried.ok
    THEN IF tried.val # <<>>
         THEN tried
         ELSE Return(<<GpuRecord("(No GPU detected via WMI)", Dash, Dash, Dash)>>)
    ELSE Return(<<GpuRecord(LookupFailed(tried), Dash, Dash, Dash)>>)

get_gpu_details(env) ==
    IF Lower(env.system) # "windows"
    THEN Return(<<GpuRecord("(GPU details only available on Windows)", Dash, Dash, Dash)>>)
    ELSE TryResult(Enumerate(env))

\* Adapters as WMI reports them.
NvidiaAdapter ==
    [Name |-> PyStr("NVIDIA GeForce RTX 3070"), AdapterRAM |-> PyInt(<<0, 0, 0, 4>>),
     DriverVersion |-> PyStr("31.0.15.3623"), Status |-> PyStr("OK")]
IntelAdapter ==
    [Name |-> PyStr("Intel(R) UHD Graphics 630"), AdapterRAM |-> PyStr("1073741824"),
     DriverVersion |-> PyStr("27.20.100.9664"), Status |-> PyStr("OK")]
\* One that reports none of its attributes.
BareAdapter ==
    [Name |-> PyNone, AdapterRAM |-> PyNone, DriverVersion |-> PyNone, Status |-> PyNone]
\* One whose AdapterRAM is no number.
OddAdapter ==
    [Name |-> PyStr("Microsoft Basic Display Adapter"), AdapterRAM |-> PyStr("n/a"),
     DriverVersion |-> PyStr(""), Status |-> PyStr("Error")]

Adapters == {NvidiaAdapter, IntelAdapter, BareAdapter, OddAdapter}

AdapterLists == UNION {[1..n -> Adapters] : n \in 0..MaxAdapters}

Systems == {"Windows", "Linux", "Darwin"}

GpuEnvs ==
    {[system |-> sy, fault |-> "", adapters |-> al] : sy \in Systems, al \in AdapterLists}
    \cup {[system |-> sy, fault |-> f, adapters |-> <<>>] :
              sy \in Systems, f \in {"import", "connect", "query"}}

GpuInit ==
    /\ gpu_env \in GpuEnvs
    /\ gpu_out = NotCalled

GpuIdle ==
    /\ gpu_env = [system |-> "Windows", fault |-> "", adapters |-> <<>>]
    /\ gpu_out = NotCalled

GpuProbe ==
    /\ gpu_out = NotCalled
    /\ gpu_out' = get_gpu_details(gpu_env)
    /\ UNCHANGED <<gpu_env, appVars, fmtVars, cpuVars>>

----------------------------------------------------------------------------
(* Dicts (sequences of <<key, value>> in insertion order) and strings.     *)

HasKey(d, k) == \E j \in 1..Len(d) : d[j][1] = k

\* d[k]
DictAt(d, k) == d[CHOOSE j \in 1..Len(d) : d[j][1] = k][2]

\* d.get(k, default)
DictGet(d, k, default) == IF HasKey(d, k) THEN DictAt(d, k) ELSE default

\* sep.join(lines)
RECURSIVE Join(_, _)
Join(lines, sep) ==
    IF lines = <<>> THEN ""
    ELSE IF Len(lines) = 1 THEN lines[1]
    ELSE lines[1] \o sep \o Join(Tail(lines), sep)

IsSpace(c) == c \in {" ", "\n", "\t", "\r"}

\* str.strip()
RECURSIVE Strip(_)
Strip(str) ==
    IF str = "" THEN ""
    ELSE IF IsSpace(SubSeq(str, 1, 1)) THEN Strip(SubSeq(str, 2, Len(str)))
    ELSE IF IsSpace(SubSeq(str, Len(str), Len(str))) THEN Strip(SubSeq(str, 1, Len(str) - 1))
    ELSE str

\* f"{x:5.1f}" of a non-negative float with one decimal, given in tenths.
Fixed5_1(tenths) ==
    LET t == ToString(tenths \div 10) \o "." \o ToString(tenths % 10)
    IN  SubSeq("     ", 1, 5 - Len(t)) \o t

----------------------------------------------------------------------------
(* The application (class App, lines 94-240).  Tk runs one handler at a    *)
(* time, to completion: each handler is one action.                        *)

Tabs == <<"CPU", "GPU", "RAM", "Live">>

TabNames == {Tabs[j] : j \in 1..Len(Tabs)}

\* What the probes' sources may answer while the application runs.
AppCpuEnv == {CpuFull, [CpuFull EXCEPT !.fault = "cpuinfo"]}
AppRamEnv == {RamHalf, RamFaulty}
AppAdapterLists ==
    {<<>>, <<NvidiaAdapter>>, <<NvidiaAdapter, IntelAdapter>>, <<NvidiaAdapter, OddAdapter>>}
AppSystems == {"Windows", "Linux"}
AppGpuEnvs(sy) ==
    {[system |-> sy, fault |-> "", adapters |-> al] : al \in AppAdapterLists}
    \cup {[system |-> sy, fault |-> "import", adapters |-> <<>>]}
AppGpuEnv == AppGpuEnvs(osName)
\* psutil's answers to one tick: cpu and percent in tenths of a percent.
LiveSources ==
    {[fault |-> FALSE, cpu |-> 125, percent |-> 500, total |-> <<0, 0, 0, 8>>],
     [fault |-> FALSE, cpu |-> 1000, percent |-> 937, total |-> <<0, 0, 0, 8>>],
     [fault |-> TRUE, cpu |-> 0, percent |-> 0, total |-> <<0>>]}

\* A counter that stops counting at MaxCount.
Bump(n) == IF n < MaxCount THEN n + 1 ELSE n

\* _set_kv, lines 169-172: the tree's rows after the call.
_set_kv(tree, d) == [j \in 1..Len(d) |-> <<d[j][1], d[j][2]>>]

\* The probes' answers and the texts built from them depend on the sources
\* alone: each is worked out once per source.
CpuCall == [c \in AppCpuEnv |-> get_cpu_details(c)]
RamCall == [r \in AppRamEnv |-> get_ram_details(r)]
GpuCall == [env \in UNION {AppGpuEnvs(sy) : sy \in AppSystems} |-> get_gpu_details(env)]

\* The state at line 155, before __init__ calls refresh_all.
AppInit ==
    /\ phase = "init"
    /\ osName \in AppSystems
    /\ cpu_tree = <<>>
    /\ ram_tree = <<>>
    /\ gpu_text = "GPU details will load when you open this tab" \o Ellipsis \o "\n"
    /\ status = ""
    /\ live = ""
    /\ gpu_loaded = FALSE
    /\ selected = Tabs[1]
    /\ afterLoad = 0
    /\ afterTick = 0
    /\ clipboard = ""
    /\ exported = <<>>
    /\ gpuProbes = 0
    /\ gateProbes = 0
    /\ ticks = 0
    /\ tickFailed = FALSE
    /\ raised = FALSE

AppIdle ==
    /\ AppInit
    /\ osName = "Windows"

\* refresh_all, lines 174-178, the probes answering cpu and ram: what it
\* leaves behind.
RefreshWith(cpu, ram) ==
    IF ~cpu.ok
    THEN [cpu_tree |-> cpu_tree, ram_tree |-> ram_tree, status |-> status,
          raised |-> TRUE]
    ELSE IF ~ram.ok
    THEN [cpu_tree |-> _set_kv(cpu_tree, cpu.val), ram_tree |-> ram_tree,
          status |-> status, raised |-> TRUE]
    ELSE [cpu_tree |-> _set_kv(cpu_tree, cpu.val),
          ram_tree |-> _set_kv(ram_tree, ram.val),
          status |-> "Refreshed", raised |-> FALSE]

refresh_all(c, r) == RefreshWith(CpuCall[c], RamCall[r])

StartupWith(done) ==
    /\ cpu_tree' = done.cpu_tree
    /\ ram_tree' = done.ram_tree
    /\ status' = done.status
    /\ raised' = done.raised
    /\ phase' = IF done.raised THEN "failed" ELSE "running"
    /\ afterTick' = IF done.raised THEN afterTick ELSE afterTick + 1

\* __init__, lines 157-158: the first refresh, then the first tick is
\* scheduled; an exception of refresh_all ends the program (main, line 276).
Startup ==
    /\ phase = "init"
    /\ \E c \in AppCpuEnv, r \in AppRamEnv : StartupWith(refresh_all(c, r))
    /\ UNCHANGED <<osName, gpu_text, live, gpu_loaded, selected, afterLoad, clipboard,
                   exported, gpuProbes, gateProbes, ticks, tickFailed, fmtVars, cpuVars, gpuVars>>

RefreshDone(done) ==
    /\ cpu_tree' = done.cpu_tree
    /\ ram_tree' = done.ram_tree
    /\ status' = done.status
    /\ raised' = done.raised

\* The Refresh button, line 147.
Refresh ==
    /\ phase = "running"
    /\ \E c \in AppCpuEnv, r \in AppRamEnv : RefreshDone(refresh_all(c, r))
    /\ UNCHANGED <<phase, osName, gpu_text, live, gpu_loaded, selected, afterLoad,
                   afterTick, clipboard, exported, gpuProbes, gateProbes, ticks,
                   tickFailed, fmtVars, cpuVars, gpuVars>>

\* Mutant of _on_tab_changed: the status is set, the load is not scheduled.
_on_tab_changed_NoSchedule(t) ==
    /\ phase = "running"
    /\ t # selected
    /\ selected' = t
    /\ status' = IF t = "GPU" /\ ~gpu_loaded THEN "Loading GPU info" \o Ellipsis ELSE status
    /\ raised' = FALSE
    /\ UNCHANGED <<phase, osName, cpu_tree, ram_tree, gpu_text, live, gpu_loaded,
                   afterLoad, afterTick, clipboard, exported, gpuProbes, gateProbes,
                   ticks, tickFailed, fmtVars, cpuVars, gpuVars>>

\* The user selects tab t and Tk delivers <<NotebookTabChanged>>:
\* _on_tab_changed, lines 196-204.
_on_tab_changed(t) ==
    /\ phase = "running"
    /\ t # selected
    /\ (t = "GPU" /\ ~gpu_loaded) => afterLoad < MaxPending
    /\ selected' = t
    /\ status' = IF t = "GPU" /\ ~gpu_loaded THEN "Loading GPU info" \o Ellipsis ELSE status
    /\ afterLoad' = IF t = "GPU" /\ ~gpu_loaded THEN afterLoad + 1 ELSE afterLoad
    /\ raised' = FALSE
    /\ UNCHANGED <<phase, osName, cpu_tree, ram_tree, gpu_text, live, gpu_loaded,
                   afterTick, clipboard, exported, gpuProbes, gateProbes, ticks,
                   tickFailed, fmtVars, cpuVars, gpuVars>>

TabChanged == \E t \in TabNames : _on_tab_changed(t)

\* The lines _load_gpu builds for adapter number i, lines 184-188.
FieldLines(g, keys) == [j \in 1..Len(keys) |-> "  " \o keys[j] \o ": " \o DictAt(g, keys[j])]

GpuLines(g, i) ==
    <<"GPU " \o ToString(i)>>
    \o FieldLines(g, SelectSeq(GpuFieldNames, LAMBDA k : HasKey(g, k)))
    \o <<"">>

RECURSIVE AllGpuLines(_, _)
AllGpuLines(gpus, i) ==
    IF i > Len(gpus) THEN <<>> ELSE GpuLines(gpus[i], i) \o AllGpuLines(gpus, i + 1)

\* The text _load_gpu inserts, lines 182-192.
GpuText(gpus) == Strip(Join(AllGpuLines(gpus, 1), "\n")) \o "\n"

GpuTextCall == [env \in DOMAIN GpuCall |-> GpuText(GpuCall[env].val)]

\* Mutant of _load_gpu: line 194 is missing.
_load_gpu_NoFlag ==
    /\ phase = "running"
    /\ afterLoad > 0
    /\ \E env \in AppGpuEnv :
          gpu_text' = GpuTextCall[env]
    /\ afterLoad' = afterLoad - 1
    /\ gpuProbes' = Bump(gpuProbes)
    /\ gateProbes' = Bump(gateProbes)
    /\ raised' = FALSE
    /\ UNCHANGED <<phase, osName, cpu_tree, ram_tree, status, live, selected, afterTick,
                   clipboard, exported, ticks, tickFailed, gpu_loaded, fmtVars, cpuVars,
                   gpuVars>>

\* A scheduled _load_gpu runs, lines 180-194.
_load_gpu ==
    /\ phase = "running"
    /\ afterLoad > 0
    /\ \E env \in AppGpuEnv :
          gpu_text' = GpuTextCall[env]
    /\ gpu_loaded' = TRUE
    /\ afterLoad' = afterLoad - 1
    /\ gpuProbes' = Bump(gpuProbes)
    /\ gateProbes' = Bump(gateProbes)
    /\ raised' = FALSE
    /\ UNCHANGED <<phase, osName, cpu_tree, ram_tree, status, live, selected, afterTick,
                   clipboard, exported, ticks, tickFailed, fmtVars, cpuVars, gpuVars>>

\* The text a tick shows, line 210.
LiveText(src) ==
    "CPU: " \o Fixed5_1(src.cpu) \o "%   RAM: " \o Fixed5_1(src.percent)
    \o "%   (Total: " \o _fmt_bytes(src.total) \o ")"

LiveTextCall == [src \in LiveSources |-> IF src.fault THEN "" ELSE LiveText(src)]

\* Mutant of _tick_live: line 213 is inside the try block.
_tick_live_AfterInTry ==
    /\ phase = "running"
    /\ afterTick > 0
    /\ \E src \in LiveSources :
          /\ live' = IF src.fault THEN live ELSE LiveTextCall[src]
          /\ tickFailed' = src.fault
          /\ afterTick' = IF src.fault THEN afterTick - 1 ELSE (afterTick - 1) + 1
    /\ ticks' = (ticks + 1) % TickWrap
    /\ raised' = FALSE
    /\ UNCHANGED <<phase, osName, cpu_tree, ram_tree, gpu_text, status, gpu_loaded,
                   selected, afterLoad, clipboard, exported, gpuProbes, gateProbes,
                   fmtVars, cpuVars, gpuVars>>

\* A scheduled _tick_live runs, lines 206-213.
_tick_live ==
    /\ phase = "running"
    /\ afterTick > 0
    /\ \E src \in LiveSources :
          /\ live' = IF src.fault THEN live ELSE LiveTextCall[src]
          /\ tickFailed' = src.fault
    /\ afterTick' = (afterTick - 1) + 1
    /\ ticks' = (ticks + 1) % TickWrap
    /\ raised' = FALSE
    /\ UNCHANGED <<phase, osName, cpu_tree, ram_tree, gpu_text, status, gpu_loaded,
                   selected, afterLoad, clipboard, exported, gpuProbes, gateProbes,
                   fmtVars, cpuVars, gpuVars>>

\* platform.release() and platform.version() of the host.
PlatformRelease(sy) == IF sy = "Windows" THEN "10" ELSE "6.8.0"
PlatformVersion(sy) == IF sy = "Windows" THEN "10.0.19045" ELSE "#1 SMP"

\* Mutant of ItemLines: the items are listed last to first.
ItemLines_Reversed(d) ==
    [j \in 1..Len(d) |-> "- " \o d[Len(d) + 1 - j][1] \o ": " \o d[Len(d) + 1 - j][2]]

\* The lines of lines 226-227 and 230-231 for dict d.
ItemLines(d) == [j \in 1..Len(d) |-> "- " \o d[j][1] \o ": " \o d[j][2]]

\* The lines of lines 234-235.
GpuSummaryLines(gpus) ==
    [i \in 1..Len(gpus) |->
        "- GPU " \o ToString(i) \o ": " \o DictGet(gpus[i], "Name", "Unknown")
        \o " (" \o DictGet(gpus[i], "VRAM", Dash) \o ")"]

\* The text copy_summary builds from its three reports, lines 220-237.
SummaryText(sy, cpu, ram, gpus) ==
    Join(<<"Simple Hardware Viewer",
           "OS: " \o sy \o " " \o PlatformRelease(sy) \o " (" \o PlatformVersion(sy) \o ")",
           "",
           "CPU:">>
         \o ItemLines(cpu)
         \o <<"", "RAM:">>
         \o ItemLines(ram)
         \o <<"", "GPU:">>
         \o GpuSummaryLines(gpus), "\n")

SummaryOf(sy, cpu, ram, gpus) ==
    IF cpu.ok /\ ram.ok THEN SummaryText(sy, cpu.val, ram.val, gpus.val) ELSE ""

SummaryCall ==
    [x \in AppCpuEnv \X AppRamEnv \X DOMAIN GpuCall |->
        SummaryOf(x[3].system, CpuCall[x[1]], RamCall[x[2]], GpuCall[x[3]])]

\* copy_summary once its three probes answered cpu, ram and gpus.
CopyWith(cpu, ram, gpus, text) ==
    IF cpu.ok /\ ram.ok
    THEN /\ raised' = FALSE
         /\ gpuProbes' = Bump(gpuProbes)
         /\ exported' = [cpu |-> cpu.val, ram |-> ram.val, gpus |-> gpus.val]
         /\ clipboard' = text
         /\ status' = "Copied to clipboard"
    ELSE /\ raised' = TRUE
         /\ UNCHANGED <<gpuProbes, exported, clipboard, status>>

\* The Copy Summary button, line 148: copy_summary, lines 215-240.
copy_summary ==
    /\ phase = "running"
    /\ \E c \in AppCpuEnv, r \in AppRamEnv, env \in AppGpuEnv :
          CopyWith(CpuCall[c], RamCall[r], GpuCall[env], SummaryCall[<<c, r, env>>])
    /\ UNCHANGED <<phase, osName, cpu_tree, ram_tree, gpu_text, live, gpu_loaded,
                   selected, afterLoad, afterTick, gateProbes, ticks, tickFailed,
                   fmtVars, cpuVars, gpuVars>>

----------
(* Specifications.                                                         *)

Init == AppInit /\ FmtIdle /\ CpuIdle /\ GpuIdle

Next ==
    \/ Startup
    \/ Refresh
    \/ TabChanged
    \/ _load_gpu
    \/ _tick_live
    \/ copy_summary

\* The application under any interleaving of its handlers.
Spec == Init /\ [][Next]_vars

\* Tk's event loop runs every timer callback that is due: a scheduled
\* _load_gpu and a scheduled _tick_live are eventually run.
FairSpec == Spec /\ WF_vars(_load_gpu) /\ WF_vars(_tick_live)

FmtNext == FmtBytesA \/ FmtBytesB

\* _fmt_bytes applied to pairs of ints.
InitFmt == AppIdle /\ FmtInit /\ CpuIdle /\ GpuIdle
SpecFmt == InitFmt /\ [][FmtNext]_vars

\* get_cpu_details applied to every source.
InitCpu == AppIdle /\ FmtIdle /\ CpuInit /\ GpuIdle
SpecCpu == InitCpu /\ [][CpuProbe]_vars

\* get_gpu_details applied to every environment.
InitGpu == AppIdle /\ FmtIdle /\ CpuIdle /\ GpuInit
SpecGpu == InitGpu /\ [][GpuProbe]_vars

----------------------------------------------------------------------------
(* Helpers of the properties below.                                        *)

\* The lines of a text: the text split at its newlines.
SplitLines(text) ==
    LET nl == {i \in 1..Len(text) : SubSeq(text, i, i) = "\n"}
        n == Cardinality(nl)
        pos == [k \in 1..n |-> CHOOSE i \in nl : Cardinality({j \in nl : j < i}) = k - 1]
    IN  [k \in 1..(n + 1) |->
            SubSeq(text, IF k = 1 THEN 1 ELSE pos[k - 1] + 1,
                         IF k = n + 1 THEN Len(text) ELSE pos[k] - 1)]

\* sub occurs in text.
Contains(text, sub) ==
    \E i \in 1..(Len(text) - Len(sub) + 1) : SubSeq(text, i, i + Len(sub) - 1) = sub

\* The position of the line equal to l.
LineIndex(lines, l) == CHOOSE i \in 1..Len(lines) : lines[i] = l

\* A text made of decimal digits.
AllDigits(text) == text # "" /\ \A i \in 1..Len(text) : IsDigit(SubSeq(text, i, i))

\* The number and the unit of an output "<number> <unit>" of _fmt_bytes.
SpaceAt(out) == CHOOSE i \in 1..Len(out) : SubSeq(out, i, i) = " "
NumberOf(out) == SubSeq(out, 1, SpaceAt(out) - 1)
UnitOf(out) == SubSeq(out, SpaceAt(out) + 1, Len(out))

UnitNames == <<"B", "KB", "MB", "GB", "TB", "PB">>

\* The index, from 0, of the unit of an output.
UnitIndexOf(out) == (CHOOSE k \in 1..Len(UnitNames) : UnitNames[k] = UnitOf(out)) - 1

\* a < b, for ints as limbs
BigLess(a, b) ==
    \/ Len(a) < Len(b)
    \/ /\ Len(a) = Len(b)
       /\ \E j \in 1..Len(a) : a[j] < b[j] /\ \A i \in (j + 1)..Len(a) : a[i] = b[i]

\* 1024^e
Pow1024(e) == Zeros(e) \o <<1>>

\* The smallest k with n / 1024^k < 1024, at most 5.
SmallestScale(n) ==
    CHOOSE k \in 0..5 :
        /\ k = 5 \/ BigLess(n, Pow1024(k + 1))
        /\ \A j \in 0..(k - 1) : ~BigLess(n, Pow1024(j + 1))

\* Output out is the one the unit selection rule asks for n.
FmtShape(n, out) ==
    /\ UnitIndexOf(out) = SmallestScale(n)
    /\ IF UnitOf(out) = "B"
       THEN AllDigits(NumberOf(out))
       ELSE /\ Len(NumberOf(out)) >= 3
            /\ SubSeq(NumberOf(out), Len(NumberOf(out)) - 1, Len(NumberOf(out)) - 1) = "."
            /\ AllDigits(SubSeq(NumberOf(out), 1, Len(NumberOf(out)) - 2))
            /\ IsDigit(SubSeq(NumberOf(out), Len(NumberOf(out)), Len(NumberOf(out))))

\* The three outputs the specification gives.
FmtExamples(n, out) ==
    /\ n = <<0>> => out = "0 B"
    /\ n = <<512, 1>> => out = "1.5 KB"
    /\ n = <<0, 0, 0, 0, 1>> => out = "1.0 TB"

\* The state of the lazy gate: self._gpu_loaded and the pending callbacks.
Gate ==
    IF gpu_loaded THEN "Loaded" ELSE IF afterLoad > 0 THEN "Loading" ELSE "NotLoaded"

InitialGpuText == "GPU details will load when you open this tab" \o Ellipsis \o "\n"

\* A present, non-empty value of a CPU source.
Available(v) == v # PyNone /\ v # PyStr("")

\* The text of the first available value of vs, "Unknown" when there is none.
FirstAvailable(vs) ==
    IF \E j \in 1..Len(vs) : Available(vs[j])
    THEN vs[CHOOSE j \in 1..Len(vs) :
                Available(vs[j]) /\ \A i \in 1..(j - 1) : ~Available(vs[i])].s
    ELSE "Unknown"

\* The text of a core count of one limb, "0" when psutil gives None.
CountText(v) == IF v = PyNone THEN "0" ELSE ToString(v.i[1])

RamFieldNames == <<"Total", "Available", "Used", "Percent">>

\* The keys of a dict, in order.
Keys(d) == [j \in 1..Len(d) |-> d[j][1]]

\* lines[from + 1 .. from + Len(d)] are the "- Label: value" lines of dict d,
\* in the order of names.
SectionIs(lines, from, d, names) ==
    /\ Keys(d) = names
    /\ Len(lines) >= from + Len(d)
    /\ \A j \in 1..Len(d) : lines[from + j] = "- " \o names[j] \o ": " \o d[j][2]

\* The export holds the three sections in order, the CPU and the RAM section
\* listing their report's fields in insertion order.
ExportCpuRam(lines) ==
    /\ \A l \in {"CPU:", "RAM:", "GPU:"} : \E i \in 1..Len(lines) : lines[i] = l
    /\ LineIndex(lines, "CPU:") < LineIndex(lines, "RAM:")
    /\ LineIndex(lines, "RAM:") < LineIndex(lines, "GPU:")
    /\ SectionIs(lines, LineIndex(lines, "CPU:"), exported.cpu, CpuFieldNames)
    /\ LineIndex(lines, "RAM:") = LineIndex(lines, "CPU:") + Len(exported.cpu) + 2
    /\ SectionIs(lines, LineIndex(lines, "RAM:"), exported.ram, RamFieldNames)
    /\ LineIndex(lines, "GPU:") = LineIndex(lines, "RAM:") + Len(exported.ram) + 2

\* The GPU section lists, for each adapter, its four fields as "- Label: value".
ExportGpuFields(lines) ==
    /\ Len(lines) = LineIndex(lines, "GPU:") + 4 * Len(exported.gpus)
    /\ \A i \in 1..Len(exported.gpus) :
          SectionIs(lines, LineIndex(lines, "GPU:") + 4 * (i - 1), exported.gpus[i],
                    GpuFieldNames)

\* The GPU section holds one line for each adapter, "- GPU i: Name (VRAM)".
ExportGpuSummary(lines) ==
    /\ Len(lines) = LineIndex(lines, "GPU:") + Len(exported.gpus)
    /\ \A i \in 1..Len(exported.gpus) :
          lines[LineIndex(lines, "GPU:") + i] =
              "- GPU " \o ToString(i) \o ": " \o DictAt(exported.gpus[i], "Name")
              \o " (" \o DictAt(exported.gpus[i], "VRAM") \o ")"

\* Enumeration raises in environment env: at a step of WMI, or converting the
\* AdapterRAM of OddAdapter, the one adapter whose AdapterRAM is no number.
EnumerationRaises(env) ==
    env.fault # "" \/ \E j \in 1..Len(env.adapters) : env.adapters[j] = OddAdapter

\* The category of the error enumeration raises in env.
ErrorCategory(env) ==
    CASE env.fault = "import" -> "ModuleNotFoundError"
      [] env.fault = "connect" -> "x_wmi_uninitialised_thread"
      [] env.fault = "query" -> "x_access_denied"
      [] OTHER -> "ValueError"

\* out is one placeholder record of this name.
OnePlaceholder(out, name) == out = <<GpuRecord(name, Dash, Dash, Dash)>>

\* What get_gpu_details returns in env, the record for no adapter being noGpu.
GpuShape(env, res, noGpu) ==
    /\ res.ok
    /\ res.val # <<>>
    /\ \A j \in 1..Len(res.val) : Keys(res.val[j]) = GpuFieldNames
    /\ env.system # "Windows" =>
          OnePlaceholder(res.val, "(GPU details only available on Windows)")
    /\ (env.system = "Windows" /\ env.fault = "" /\ env.adapters = <<>>) =>
          OnePlaceholder(res.val, noGpu)
    /\ (env.system = "Windows" /\ EnumerationRaises(env)) =>
          /\ Len(res.val) = 1
          /\ Contains(DictAt(res.val[1], "Name"), ErrorCategory(env))
          /\ \A k \in {"VRAM", "Driver", "Status"} : DictAt(res.val[1], k) = Dash
    /\ (env.system = "Windows" /\ ~EnumerationRaises(env) /\ env.adapters # <<>>) =>
          /\ Len(res.val) = Len(env.adapters)
          /\ \A j \in 1..Len(env.adapters) :
                DictAt(res.val[j], "Name") =
                    IF env.adapters[j].Name = PyNone THEN "Unknown"
                    ELSE env.adapters[j].Name.s

----------------------------------------------------------------------------
(* The properties.                                                         *)

\* C1: however many times the GPU tab is opened before the first scheduled
\* _load_gpu has run, _load_gpu calls get_gpu_details once in all.
C1_GateProbesOnce == gateProbes <= 1

\* C2: over any sequence of operations get_gpu_details is called at most once.
C2_ProbeAtMostOnce == gpuProbes <= 1

\* C3: no probe raises to its caller, so neither startup nor a later handler
\* fails because of a probe's source.
C3_ProbesNeverRaise == phase # "failed" /\ ~raised

\* C4 as stated: get_gpu_details returns a non-empty list of four-field
\* records: one platform placeholder off Windows, one "(No GPU detected)"
\* placeholder for no adapter, one placeholder naming the error category when
\* enumeration raises, else one record per adapter in order.
C4_GpuShapeAsStated ==
    gpu_out # NotCalled => GpuShape(gpu_env, gpu_out, "(No GPU detected)")

\* C4 amended: the same, the placeholder for no adapter being named
\* "(No GPU detected via WMI)".
C4_GpuShape ==
    gpu_out # NotCalled => GpuShape(gpu_env, gpu_out, "(No GPU detected via WMI)")

\* get_gpu_details was called on Windows with no adapter enumerated.
C4_Witness ==
    /\ gpu_out # NotCalled
    /\ gpu_env.system = "Windows"
    /\ gpu_env.fault = ""
    /\ gpu_env.adapters = <<>>

\* C5: once started, exactly one live tick is pending at every moment; every
\* execution of _tick_live leaves one tick pending and a failed one leaves
\* the published sample as it was; no other handler changes the pending
\* tick; and a tick always runs again.
C5_LiveLoop ==
    /\ [](phase = "running" => afterTick = 1)
    /\ [][/\ ticks' # ticks => afterTick' = 1
          /\ (ticks' # ticks /\ tickFailed') => live' = live
          /\ (ticks' # ticks /\ ~tickFailed') => live' # ""
          /\ (ticks' = ticks /\ phase = "running") =>
                (afterTick' = afterTick /\ live' = live)]_vars
    /\ \A k \in 0..(TickWrap - 1) : (phase = "running" /\ ticks = k) ~> (ticks # k)

\* A tick failed after a sample had been published, and a tick is pending.
C5_Witness == phase = "running" /\ tickFailed /\ live # "" /\ afterTick = 1

\* C6: _fmt_bytes(n) uses the unit of the smallest index k with
\* n / 1024^k < 1024, PB at most; the index does not decrease as n grows; "B"
\* comes with an integer and every other unit with exactly one decimal;
\* _fmt_bytes(0) = "0 B", _fmt_bytes(1536) = "1.5 KB",
\* _fmt_bytes(1099511627776) = "1.0 TB".
C6_FmtBytes ==
    /\ fmt_ra # "" => FmtShape(fmt_a, fmt_ra) /\ FmtExamples(fmt_a, fmt_ra)
    /\ fmt_rb # "" => FmtShape(fmt_b, fmt_rb) /\ FmtExamples(fmt_b, fmt_rb)
    /\ (fmt_ra # "" /\ fmt_rb # "") =>
          /\ ~BigLess(fmt_b, fmt_a) => UnitIndexOf(fmt_ra) <= UnitIndexOf(fmt_rb)
          /\ ~BigLess(fmt_a, fmt_b) => UnitIndexOf(fmt_rb) <= UnitIndexOf(fmt_ra)

\* 1024^6 was formatted, in PB, and 1536.
C6_Witness ==
    /\ fmt_a = <<0, 0, 0, 0, 0, 0, 1>>
    /\ fmt_b = <<512, 1>>
    /\ fmt_ra # ""
    /\ fmt_rb = "1.5 KB"
    /\ UnitOf(fmt_ra) = "PB"

\* C7 as stated: the export holds "CPU:", "RAM:", "GPU:" in this order, each
\* section listing its report's fields as "- Label: value" in insertion
\* order, the GPU section each adapter's Name, VRAM, Driver, Status.
C7_ExportAsStated ==
    clipboard # "" =>
        /\ ExportCpuRam(SplitLines(clipboard))
        /\ ExportGpuFields(SplitLines(clipboard))

\* C7 amended: the same for the CPU and the RAM section; the GPU section
\* holds one line "- GPU i: Name (VRAM)" for each adapter, in order.
C7_Export ==
    clipboard # "" =>
        /\ ExportCpuRam(SplitLines(clipboard))
        /\ ExportGpuSummary(SplitLines(clipboard))

\* A summary of two adapters was copied.
C7_Witness == clipboard # "" /\ Len(exported.gpus) = 2

\* C8: whatever fields its sources answer, get_cpu_details returns the five
\* fields in order, Name, Arch and Advertised each being the first available
\* of its sources or "Unknown", each core count the OS count or "0".
C8_CpuReport ==
    (cpu_out # NotCalled /\ cpu_src.fault = "") =>
        /\ cpu_out.ok
        /\ Keys(cpu_out.val) = CpuFieldNames
        /\ DictAt(cpu_out.val, "Name") =
              FirstAvailable(<<cpu_src.info["brand_raw"], cpu_src.info["brand"],
                               cpu_src.processor>>)
        /\ DictAt(cpu_out.val, "Arch") =
              FirstAvailable(<<cpu_src.info["arch"], cpu_src.machine>>)
        /\ DictAt(cpu_out.val, "Advertised") =
              FirstAvailable(<<cpu_src.info["hz_advertised_friendly"],
                               cpu_src.info["hz_advertised"]>>)
        /\ DictAt(cpu_out.val, "Cores (physical)") = CountText(cpu_src.physical)
        /\ DictAt(cpu_out.val, "Cores (logical)") = CountText(cpu_src.logical)

\* The probe ran on a source without brand_raw, with the shorter brand field
\* and without a physical core count.
C8_Witness ==
    /\ cpu_out # NotCalled
    /\ cpu_src.fault = ""
    /\ ~Available(cpu_src.info["brand_raw"])
    /\ Available(cpu_src.info["brand"])
    /\ cpu_src.physical = PyNone

\* C9: the gate only moves NotLoaded -> Loading, on a request for the GPU
\* view, and Loading -> Loaded, when a scheduled _load_gpu has run; once
\* _gpu_loaded is true it stays true.
C9_GateStateMachine ==
    [][/\ Gate' # Gate =>
             \/ Gate = "NotLoaded" /\ Gate' = "Loading" /\ selected' = "GPU"
             \/ Gate = "Loading" /\ Gate' = "Loaded" /\ afterLoad' = afterLoad - 1
       /\ gpu_loaded => gpu_loaded']_vars

\* The gate is Loaded, nothing is pending, and a Refresh has run since.
C9_Witness == gpu_loaded /\ afterLoad = 0 /\ status = "Refreshed"

\* C10: once the GPU tab is selected with the gate not Loaded, the gate
\* becomes Loaded; when Loaded the GPU view shows a result of the probe, not
\* the initial text; and the gate leaves NotLoaded only by the GPU tab being
\* selected.
C10_GateLiveness ==
    /\ (phase = "running" /\ selected = "GPU" /\ ~gpu_loaded) ~> gpu_loaded
    /\ [](gpu_loaded =>
             /\ gpu_text # InitialGpuText
             /\ gpu_text \in {GpuTextCall[env] : env \in AppGpuEnv})
    /\ [][Gate = "NotLoaded" /\ Gate' # "NotLoaded" =>
             selected # "GPU" /\ selected' = "GPU"]_vars

\* The gate is Loaded and the view shows the probe's error placeholder.
C10_Witness == gpu_loaded /\ Contains(gpu_text, "GPU lookup failed")

====
